---- MODULE Spec2Model ----
(***************************************************************************)
(* Jewellery storefront backend: the handlers of server/src/handlers run   *)
(* against one relational store.  Every `await db....execute()` of a       *)
(* handler is one statement of the store, executed atomically and          *)
(* committed at once (no handler opens a transaction); the synchronous     *)
(* code that follows a statement up to the next `await` belongs to the     *)
(* same step.  Money is counted in mills (1/1000 of the currency unit) on  *)
(* the application side and in cents in the numeric(10,2) columns.         *)
(***************************************************************************)
EXTENDS Integers, Sequences, FiniteSets, TLC

VARIABLES items, customers, cart, orders, orderItems, queries,
          nextCartId, nextOrderId, nextOrderItemId,
          proc, calls

vars == <<items, customers, cart, orders, orderItems, queries,
          nextCartId, nextOrderId, nextOrderItemId, proc, calls>>

store == <<items, customers, cart, orders, orderItems, queries>>

----------------------------------------------------------------------------
(* Bounds of the model *)

\* handler calls that may be in flight at once
NumProcs == 2
\* handler calls one client makes in a behaviour
MaxCalls == 2
\* handler calls concurrent clients make in a behaviour
MaxRaceCalls == 3
\* largest quantity a cart request asks for
MaxQty == 2
\* largest stock_quantity an admin update sets
MaxStock == 2
\* latest time `new Date()` and the store's now() return
MaxClock == 1
\* rows the catalog holds at most
MaxItems == 3
\* largest page and largest limit a list request asks for
MaxPage == 3
MaxLimit == 2

Procs == 1..NumProcs
Sessions == {"s1", "s2"}
Quantities == 1..MaxQty
Stocks == 0..MaxStock

----------------------------------------------------------------------------
(* Money: application numbers (mills) and numeric(10,2) columns (cents) *)

\* Math.abs(calculatedTotal - input.total_amount) > 0.01, in mills
Tolerance == 10

Abs(x) == IF x < 0 THEN -x ELSE x

\* value.toString() written into a numeric(10,2) column: the store rounds to
\* two decimals, half away from zero (amounts here are never negative)
ToNumeric2(mills) == (mills + 5) \div 10

\* parseFloat of a numeric(10,2) column
ParseFloat(cents) == cents * 10

----------------------------------------------------------------------------
(* The store *)

\* ids a request may name: the catalog ids and one id of no row
ItemIdInputs == {1, 2, 3}
CustomerIdInputs == {1, 2}

NoItem ==
    [name |-> "", materials |-> "", description |-> "", price |-> 0,
     image_url |-> "null", stock_quantity |-> 0, is_active |-> FALSE,
     created_at |-> 0, updated_at |-> 0]

\* the store the handlers' tests seed: one customer and two active items
\* (199.99 and 99.50) in stock, inserted by one statement, and no order
SeedItems ==
    (1 :> [name |-> "Gold Ring", materials |-> "18k Gold",
           description |-> "Beautiful gold ring", price |-> 19999,
           image_url |-> "null", stock_quantity |-> 3, is_active |-> TRUE,
           created_at |-> 0, updated_at |-> 0]) @@
    (2 :> [name |-> "Silver Necklace", materials |-> "Sterling Silver",
           description |-> "Elegant silver necklace", price |-> 9950,
           image_url |-> "null", stock_quantity |-> 2, is_active |-> TRUE,
           created_at |-> 0, updated_at |-> 0])

SeedCustomers == (1 :> [email |-> "test@example.com"])

\* an update input: the fields it supplies (the others are undefined)
NoUpdate ==
    [supplied |-> {}, name |-> "", materials |-> "", description |-> "",
     price |-> 0, image_url |-> "", stock_quantity |-> 0, is_active |-> FALSE,
     status |-> "", payment_status |-> "", payment_method |-> ""]

Idle ==
    [op |-> "none", pc |-> "idle", session |-> "", item |-> 0, quantity |-> 0,
     newQuantity |-> 0, id |-> 0, customer_id |-> 0, total_amount |-> 0,
     snap |-> <<>>,
     seen |-> NoItem, orderId |-> 0, idx |-> 0, upd |-> NoUpdate,
     page |-> 0, limit |-> 0, email |-> "",
     now |-> 0, result |-> "none", ret |-> 0, out |-> <<>>, pre |-> <<>>]

Running(p) == proc[p].pc \notin {"idle", "done"}
Quiet == \A q \in Procs : ~Running(q)

\* a handler call starts with its first statement
Start(p) == ~Running(p) /\ calls > 0

\* a call's record remembers the store as it was when the call started
Call(op, pc) == [Idle EXCEPT !.op = op, !.pc = pc, !.pre = store]
Return(r, result) == [r EXCEPT !.pc = "done", !.result = result]

\* all orders in which a query without ORDER BY may return the rows
Orderings(S) ==
    {f \in [1..Cardinality(S) -> S] : \A i, j \in DOMAIN f : f[i] = f[j] => i = j}

RECURSIVE SumSeq(_)
SumSeq(s) == IF s = <<>> THEN 0 ELSE Head(s) + SumSeq(Tail(s))

Min(S) == CHOOSE x \in S : \A y \in S : x <= y

CartRowsOf(sessionId) == {id \in DOMAIN cart : cart[id].session_id = sessionId}

Max(S) == CHOOSE x \in S : \A y \in S : x >= y

\* the clock: `new Date()` and the store's now() never return less than a
\* time returned before, which is a time some row or some call holds
Latest ==
    Max({0} \cup {items[i].updated_at : i \in DOMAIN items}
            \cup {orders[o].updated_at : o \in DOMAIN orders}
            \cup {queries[q].updated_at : q \in DOMAIN queries}
            \cup {proc[p].now : p \in Procs})

Now == {t \in {Latest, Latest + 1} : t <= MaxClock}

----------------------------------------------------------------------------
(* createOrder *)

\* row of cart_items inner join jewellery_items
JoinRow(id) ==
    [id |-> id,
     jewellery_item_id |-> cart[id].jewellery_item_id,
     quantity |-> cart[id].quantity,
     price |-> items[cart[id].jewellery_item_id].price,
     stock_quantity |-> items[cart[id].jewellery_item_id].stock_quantity,
     is_active |-> items[cart[id].jewellery_item_id].is_active]

SelectCartJoin(sessionId) ==
    {[i \in DOMAIN f |-> JoinRow(f[i])] : f \in Orderings(CartRowsOf(sessionId))}

\* mutant: a row's stock is checked before its item's is_active
RowCheck_StockFirst(row) ==
    IF row.stock_quantity < row.quantity THEN "Insufficient stock"
    ELSE IF ~row.is_active THEN "no longer available"
    ELSE "ok"

RowCheck(row) ==
    IF ~row.is_active THEN "no longer available"
    ELSE IF row.stock_quantity < row.quantity THEN "Insufficient stock"
    ELSE "ok"

\* the for loop over cartItems: the first row that fails decides
ValidateRows(snap) ==
    LET bad == {i \in DOMAIN snap : RowCheck(snap[i]) # "ok"}
    IN  IF bad = {} THEN "ok" ELSE RowCheck(snap[Min(bad)])

CalculatedTotal(snap) ==
    SumSeq([i \in DOMAIN snap |-> ParseFloat(snap[i].price) * snap[i].quantity])

\* mutant: the difference is compared without Math.abs
TotalMismatch_Signed(calculatedTotal, total_amount) ==
    calculatedTotal - total_amount > Tolerance

TotalMismatch(calculatedTotal, total_amount) ==
    Abs(calculatedTotal - total_amount) > Tolerance

CheckCart(snap, total_amount) ==
    IF Len(snap) = 0 THEN "Cart is empty"
    ELSE IF ValidateRows(snap) # "ok" THEN ValidateRows(snap)
    ELSE IF TotalMismatch(CalculatedTotal(snap), total_amount)
         THEN "Total amount mismatch"
    ELSE "ok"

NewOrder(r, now) ==
    [customer_id |-> r.customer_id,
     total_amount |-> ToNumeric2(r.total_amount),
     status |-> "pending",
     shipping_address |-> "ship",
     billing_address |-> "bill",
     payment_status |-> "pending",
     payment_method |-> "credit_card",
     created_at |-> now,
     updated_at |-> now]

\* mutant: the cart row's quantity is not copied
OrderItemsData_UnitQuantity(orderId, snap) ==
    [i \in DOMAIN snap |->
        [order_id |-> orderId,
         jewellery_item_id |-> snap[i].jewellery_item_id,
         quantity |-> 1,
         price_per_item |-> snap[i].price]]

OrderItemsData(orderId, snap) ==
    [i \in DOMAIN snap |->
        [order_id |-> orderId,
         jewellery_item_id |-> snap[i].jewellery_item_id,
         quantity |-> snap[i].quantity,
         price_per_item |-> snap[i].price]]

\* stock_quantity written for one cart row: computed from the row as read
StockAfter(row) == row.stock_quantity - row.quantity

\* 1. select the customer
CreateOrder_SelectCustomer(p, customer_id, total_amount, sessionId) ==
    /\ Start(p)
    /\ LET r == [Call("createOrder", "co_cart") EXCEPT
                    !.customer_id = customer_id,
                    !.total_amount = total_amount,
                    !.session = sessionId]
       IN  proc' = [proc EXCEPT ![p] =
                IF customer_id \in DOMAIN customers THEN r
                ELSE Return(r, "Customer not found")]
    /\ calls' = calls - 1
    /\ UNCHANGED <<store, nextCartId, nextOrderId, nextOrderItemId>>

\* mutant: the total is checked only after the order row is inserted
CreateOrder_SelectCart_LateTotalCheck(p) ==
    /\ proc[p].pc = "co_cart"
    /\ \E snap \in SelectCartJoin(proc[p].session) :
          LET r == [proc[p] EXCEPT !.snap = snap]
              rows == IF Len(snap) = 0 THEN "Cart is empty" ELSE ValidateRows(snap)
          IN  IF rows # "ok"
              THEN /\ proc' = [proc EXCEPT ![p] = Return(r, rows)]
                   /\ UNCHANGED <<orders, nextOrderId>>
              ELSE /\ \E now \in Now :
                          orders' = orders @@ (nextOrderId :> NewOrder(r, now))
                   /\ nextOrderId' = nextOrderId + 1
                   /\ proc' = [proc EXCEPT ![p] =
                          IF TotalMismatch(CalculatedTotal(snap), r.total_amount)
                          THEN Return(r, "Total amount mismatch")
                          ELSE [r EXCEPT !.pc = "co_items",
                                         !.orderId = nextOrderId]]
    /\ UNCHANGED <<items, customers, cart, orderItems, queries, nextCartId,
                   nextOrderItemId, calls>>

\* 2.-3. select the session's cart rows with their items, validate them
CreateOrder_SelectCart(p) ==
    /\ proc[p].pc = "co_cart"
    /\ \E snap \in SelectCartJoin(proc[p].session) :
          LET r == [proc[p] EXCEPT !.snap = snap]
              check == CheckCart(snap, r.total_amount)
          IN  proc' = [proc EXCEPT ![p] =
                  IF check = "ok" THEN [r EXCEPT !.pc = "co_order"]
                  ELSE Return(r, check)]
    /\ UNCHANGED <<store, nextCartId, nextOrderId, nextOrderItemId, calls>>

\* 4. insert the order row
CreateOrder_InsertOrder(p) ==
    /\ proc[p].pc = "co_order"
    /\ \E now \in Now :
          orders' = orders @@ (nextOrderId :> NewOrder(proc[p], now))
    /\ nextOrderId' = nextOrderId + 1
    /\ proc' = [proc EXCEPT ![p] = [@ EXCEPT !.pc = "co_items",
                                             !.orderId = nextOrderId]]
    /\ UNCHANGED <<items, customers, cart, orderItems, queries, nextCartId,
                   nextOrderItemId, calls>>

\* 5. insert one order_items row per cart row read; the Date of the first
\* stock update is read when that statement is built
CreateOrder_InsertItems(p) ==
    /\ proc[p].pc = "co_items"
    /\ LET data == OrderItemsData(proc[p].orderId, proc[p].snap)
       IN  /\ orderItems' = orderItems @@
                  [k \in nextOrderItemId..(nextOrderItemId + Len(data) - 1) |->
                      data[k - nextOrderItemId + 1]]
           /\ nextOrderItemId' = nextOrderItemId + Len(data)
    /\ \E now \in Now :
          proc' = [proc EXCEPT ![p] = [@ EXCEPT !.pc = "co_stock", !.idx = 1,
                                                !.now = now]]
    /\ UNCHANGED <<items, customers, cart, orders, queries, nextCartId, nextOrderId,
                   calls>>

\* mutant: the stock is decremented in the store, from the row's live value
CreateOrder_UpdateStock_Live(p) ==
    /\ proc[p].pc = "co_stock"
    /\ LET row == proc[p].snap[proc[p].idx]
       IN  items' = [items EXCEPT
                        ![row.jewellery_item_id].stock_quantity = @ - row.quantity,
                        ![row.jewellery_item_id].updated_at = proc[p].now]
    /\ IF proc[p].idx = Len(proc[p].snap)
       THEN proc' = [proc EXCEPT ![p] = [@ EXCEPT !.pc = "co_clear"]]
       ELSE \E now \in Now :
               proc' = [proc EXCEPT ![p] = [@ EXCEPT !.idx = @ + 1, !.now = now]]
    /\ UNCHANGED <<customers, cart, orders, orderItems, queries, nextCartId,
                   nextOrderId, nextOrderItemId, calls>>

\* 6. one update of jewellery_items per cart row read
CreateOrder_UpdateStock(p) ==
    /\ proc[p].pc = "co_stock"
    /\ LET row == proc[p].snap[proc[p].idx]
       IN  items' = [items EXCEPT
                        ![row.jewellery_item_id].stock_quantity = StockAfter(row),
                        ![row.jewellery_item_id].updated_at = proc[p].now]
    /\ IF proc[p].idx = Len(proc[p].snap)
       THEN proc' = [proc EXCEPT ![p] = [@ EXCEPT !.pc = "co_clear"]]
       ELSE \E now \in Now :
               proc' = [proc EXCEPT ![p] = [@ EXCEPT !.idx = @ + 1, !.now = now]]
    /\ UNCHANGED <<customers, cart, orders, orderItems, queries, nextCartId,
                   nextOrderId, nextOrderItemId, calls>>

\* 7.-8. delete the session's cart rows, return the order
CreateOrder_ClearCart(p) ==
    /\ proc[p].pc = "co_clear"
    /\ cart' = [id \in DOMAIN cart \ CartRowsOf(proc[p].session) |-> cart[id]]
    /\ proc' = [proc EXCEPT ![p] =
            [Return(@, "ok") EXCEPT !.ret = proc[p].orderId]]
    /\ UNCHANGED <<items, customers, orders, orderItems, queries, nextCartId,
                   nextOrderId, nextOrderItemId, calls>>

----------------------------------------------------------------------------
(* addToCart *)

ExistingCartItems(session_id, jewellery_item_id) ==
    {id \in DOMAIN cart : /\ cart[id].session_id = session_id
                          /\ cart[id].jewellery_item_id = jewellery_item_id}

\* select the jewellery item; it must exist and be active
AddToCart_SelectItem(p, session_id, jewellery_item_id, quantity) ==
    /\ Start(p)
    /\ LET r == [Call("addToCart", "ac_existing") EXCEPT
                    !.session = session_id,
                    !.item = jewellery_item_id,
                    !.quantity = quantity]
       IN  proc' = [proc EXCEPT ![p] =
                IF jewellery_item_id \notin DOMAIN items
                THEN Return(r, "not found")
                ELSE IF ~items[jewellery_item_id].is_active
                THEN Return(r, "is not available")
                ELSE [r EXCEPT !.seen = items[jewellery_item_id]]]
    /\ calls' = calls - 1
    /\ UNCHANGED <<store, nextCartId, nextOrderId, nextOrderItemId>>

\* mutant: the requested quantity replaces the existing row's quantity
AddToCart_SelectExisting_Overwrite(p) ==
    /\ proc[p].pc = "ac_existing"
    /\ LET r == proc[p]
           existing == ExistingCartItems(r.session, r.item)
       IN  IF existing # {}
           THEN \E existingItem \in existing :
                  LET newQuantity == r.quantity
                  IN  proc' = [proc EXCEPT ![p] =
                          IF newQuantity > r.seen.stock_quantity
                          THEN Return(r, "Insufficient stock")
                          ELSE [r EXCEPT !.pc = "ac_update",
                                         !.id = existingItem,
                                         !.newQuantity = newQuantity]]
           ELSE proc' = [proc EXCEPT ![p] =
                          IF r.quantity > r.seen.stock_quantity
                          THEN Return(r, "Insufficient stock")
                          ELSE [r EXCEPT !.pc = "ac_insert"]]
    /\ UNCHANGED <<store, nextCartId, nextOrderId, nextOrderItemId, calls>>

\* mutant: the merged quantity is written before it is checked against stock
AddToCart_SelectExisting_WriteFirst(p) ==
    /\ proc[p].pc = "ac_existing"
    /\ LET r == proc[p]
           existing == ExistingCartItems(r.session, r.item)
       IN  IF existing # {}
           THEN \E existingItem \in existing :
                  LET newQuantity == cart[existingItem].quantity + r.quantity
                  IN  /\ cart' = [cart EXCEPT ![existingItem].quantity = newQuantity]
                      /\ proc' = [proc EXCEPT ![p] =
                              IF newQuantity > r.seen.stock_quantity
                              THEN Return(r, "Insufficient stock")
                              ELSE [r EXCEPT !.pc = "ac_update",
                                             !.id = existingItem,
                                             !.newQuantity = newQuantity]]
           ELSE /\ cart' = cart
                /\ proc' = [proc EXCEPT ![p] =
                          IF r.quantity > r.seen.stock_quantity
                          THEN Return(r, "Insufficient stock")
                          ELSE [r EXCEPT !.pc = "ac_insert"]]
    /\ UNCHANGED <<items, customers, orders, orderItems, queries, nextCartId,
                   nextOrderId, nextOrderItemId, calls>>

\* select the cart rows of (session, item) and check the stock read before
AddToCart_SelectExisting(p) ==
    /\ proc[p].pc = "ac_existing"
    /\ LET r == proc[p]
           existing == ExistingCartItems(r.session, r.item)
       IN  IF existing # {}
           THEN \E existingItem \in existing :
                  LET newQuantity == cart[existingItem].quantity + r.quantity
                  IN  proc' = [proc EXCEPT ![p] =
                          IF newQuantity > r.seen.stock_quantity
                          THEN Return(r, "Insufficient stock")
                          ELSE [r EXCEPT !.pc = "ac_update",
                                         !.id = existingItem,
                                         !.newQuantity = newQuantity]]
           ELSE proc' = [proc EXCEPT ![p] =
                          IF r.quantity > r.seen.stock_quantity
                          THEN Return(r, "Insufficient stock")
                          ELSE [r EXCEPT !.pc = "ac_insert"]]
    /\ UNCHANGED <<store, nextCartId, nextOrderId, nextOrderItemId, calls>>

\* update the existing row; the row returned is undefined when it is gone
AddToCart_Update(p) ==
    /\ proc[p].pc = "ac_update"
    /\ IF proc[p].id \in DOMAIN cart
       THEN /\ cart' = [cart EXCEPT ![proc[p].id].quantity = proc[p].newQuantity]
            /\ proc' = [proc EXCEPT ![p] =
                    [Return(@, "ok") EXCEPT !.ret = proc[p].id]]
       ELSE /\ cart' = cart
            /\ proc' = [proc EXCEPT ![p] = Return(@, "undefined")]
    /\ UNCHANGED <<items, customers, orders, orderItems, queries, nextCartId,
                   nextOrderId, nextOrderItemId, calls>>

\* insert a new row
AddToCart_Insert(p) ==
    /\ proc[p].pc = "ac_insert"
    /\ cart' = cart @@ (nextCartId :>
            [session_id |-> proc[p].session,
             jewellery_item_id |-> proc[p].item,
             quantity |-> proc[p].quantity])
    /\ nextCartId' = nextCartId + 1
    /\ proc' = [proc EXCEPT ![p] = [Return(@, "ok") EXCEPT !.ret = nextCartId]]
    /\ UNCHANGED <<items, customers, orders, orderItems, queries, nextOrderId,
                   nextOrderItemId, calls>>

----------------------------------------------------------------------------
(* updateCartItem, removeFromCart, clearCart *)

\* mutant: the item's active flag is not checked
UpdateCartItem_Select_NoActiveCheck(p, id, quantity) ==
    /\ Start(p)
    /\ LET r == [Call("updateCartItem", "uc_update") EXCEPT
                    !.id = id, !.quantity = quantity]
       IN  proc' = [proc EXCEPT ![p] =
                IF id \notin DOMAIN cart THEN Return(r, "null")
                ELSE IF quantity > items[cart[id].jewellery_item_id].stock_quantity
                THEN Return(r, "Insufficient stock")
                ELSE r]
    /\ calls' = calls - 1
    /\ UNCHANGED <<store, nextCartId, nextOrderId, nextOrderItemId>>

\* select the row joined with its item; null when there is none.  The stock
\* is checked before the active flag.
UpdateCartItem_Select(p, id, quantity) ==
    /\ Start(p)
    /\ LET r == [Call("updateCartItem", "uc_update") EXCEPT
                    !.id = id, !.quantity = quantity]
       IN  proc' = [proc EXCEPT ![p] =
                IF id \notin DOMAIN cart THEN Return(r, "null")
                ELSE IF quantity > items[cart[id].jewellery_item_id].stock_quantity
                THEN Return(r, "Insufficient stock")
                ELSE IF ~items[cart[id].jewellery_item_id].is_active
                THEN Return(r, "no longer available")
                ELSE r]
    /\ calls' = calls - 1
    /\ UNCHANGED <<store, nextCartId, nextOrderId, nextOrderItemId>>

UpdateCartItem_Update(p) ==
    /\ proc[p].pc = "uc_update"
    /\ IF proc[p].id \in DOMAIN cart
       THEN /\ cart' = [cart EXCEPT ![proc[p].id].quantity = proc[p].quantity]
            /\ proc' = [proc EXCEPT ![p] =
                    [Return(@, "ok") EXCEPT !.ret = proc[p].id]]
       ELSE /\ cart' = cart
            /\ proc' = [proc EXCEPT ![p] = Return(@, "null")]
    /\ UNCHANGED <<items, customers, orders, orderItems, queries, nextCartId,
                   nextOrderId, nextOrderItemId, calls>>

\* mutant: the delete matches every row of the named row's item
RemoveFromCart_SameItem(p, cartItemId) ==
    /\ Start(p)
    /\ cart' = [id \in {k \in DOMAIN cart :
                          \/ cartItemId \notin DOMAIN cart
                          \/ cart[k].jewellery_item_id #
                                 cart[cartItemId].jewellery_item_id} |-> cart[id]]
    /\ proc' = [proc EXCEPT ![p] =
            Return([Call("removeFromCart", "done") EXCEPT !.id = cartItemId],
                   IF cartItemId \in DOMAIN cart THEN "true" ELSE "false")]
    /\ calls' = calls - 1
    /\ UNCHANGED <<items, customers, orders, orderItems, queries, nextCartId,
                   nextOrderId, nextOrderItemId>>

\* delete the row by id; true when a row was deleted
RemoveFromCart(p, cartItemId) ==
    /\ Start(p)
    /\ cart' = [id \in DOMAIN cart \ {cartItemId} |-> cart[id]]
    /\ proc' = [proc EXCEPT ![p] =
            Return([Call("removeFromCart", "done") EXCEPT !.id = cartItemId],
                   IF cartItemId \in DOMAIN cart THEN "true" ELSE "false")]
    /\ calls' = calls - 1
    /\ UNCHANGED <<items, customers, orders, orderItems, queries, nextCartId,
                   nextOrderId, nextOrderItemId>>

\* mutant: the delete has no where clause
ClearCart_EverySession(p, sessionId) ==
    /\ Start(p)
    /\ cart' = <<>>
    /\ proc' = [proc EXCEPT ![p] =
            Return([Call("clearCart", "done") EXCEPT !.session = sessionId],
                   "true")]
    /\ calls' = calls - 1
    /\ UNCHANGED <<items, customers, orders, orderItems, queries, nextCartId,
                   nextOrderId, nextOrderItemId>>

\* delete the session's rows; true whatever the row count
ClearCart(p, sessionId) ==
    /\ Start(p)
    /\ cart' = [id \in DOMAIN cart \ CartRowsOf(sessionId) |-> cart[id]]
    /\ proc' = [proc EXCEPT ![p] =
            Return([Call("clearCart", "done") EXCEPT !.session = sessionId],
                   "true")]
    /\ calls' = calls - 1
    /\ UNCHANGED <<items, customers, orders, orderItems, queries, nextCartId,
                   nextOrderId, nextOrderItemId>>

----------------------------------------------------------------------------
(* getCart *)

\* results.map: the cart row's id and quantity with the item, price parsed
GetCartItems(results) ==
    [i \in DOMAIN results |->
        [id |-> results[i].id,
         quantity |-> results[i].quantity,
         jewellery_item |->
            [id |-> results[i].jewellery_item_id,
             price |-> ParseFloat(results[i].price),
             stock_quantity |-> results[i].stock_quantity,
             is_active |-> results[i].is_active]]]

\* items.reduce: price * quantity summed from 0
GetCartTotal(cartItems) ==
    SumSeq([i \in DOMAIN cartItems |->
               cartItems[i].jewellery_item.price * cartItems[i].quantity])

\* mutant: the select has no where clause
GetCart_EverySession(p, sessionId) ==
    /\ Start(p)
    /\ \E f \in Orderings(DOMAIN cart) :
          LET cartItems == GetCartItems([i \in DOMAIN f |-> JoinRow(f[i])])
          IN  proc' = [proc EXCEPT ![p] =
                  Return([Call("getCart", "done") EXCEPT
                             !.session = sessionId,
                             !.out = [items |-> cartItems,
                                      total_amount |-> GetCartTotal(cartItems)]],
                         "ok")]
    /\ calls' = calls - 1
    /\ UNCHANGED <<store, nextCartId, nextOrderId, nextOrderItemId>>

\* select the session's rows joined with their items, map and total them
GetCart(p, sessionId) ==
    /\ Start(p)
    /\ \E results \in SelectCartJoin(sessionId) :
          LET cartItems == GetCartItems(results)
          IN  proc' = [proc EXCEPT ![p] =
                  Return([Call("getCart", "done") EXCEPT
                             !.session = sessionId,
                             !.out = [items |-> cartItems,
                                      total_amount |-> GetCartTotal(cartItems)]],
                         "ok")]
    /\ calls' = calls - 1
    /\ UNCHANGED <<store, nextCartId, nextOrderId, nextOrderItemId>>

----------------------------------------------------------------------------
(* updateJewelleryItem, deleteJewelleryItem, updateOrder *)

\* mutant: a supplied value is written only when it is truthy
ApplyItemUpdate_Truthy(row, upd, now) ==
    [name |-> IF "name" \in upd.supplied THEN upd.name ELSE row.name,
     materials |-> IF "materials" \in upd.supplied
                   THEN upd.materials ELSE row.materials,
     description |-> IF "description" \in upd.supplied
                     THEN upd.description ELSE row.description,
     price |-> IF "price" \in upd.supplied
               THEN ToNumeric2(upd.price) ELSE row.price,
     image_url |-> IF "image_url" \in upd.supplied /\ upd.image_url # "null"
                   THEN upd.image_url ELSE row.image_url,
     stock_quantity |-> IF "stock_quantity" \in upd.supplied /\ upd.stock_quantity # 0
                        THEN upd.stock_quantity ELSE row.stock_quantity,
     is_active |-> IF "is_active" \in upd.supplied /\ upd.is_active
                   THEN upd.is_active ELSE row.is_active,
     created_at |-> row.created_at,
     updated_at |-> now]

\* the row after `set(updateData)`: only the supplied fields are written
ApplyItemUpdate(row, upd, now) ==
    [name |-> IF "name" \in upd.supplied THEN upd.name ELSE row.name,
     materials |-> IF "materials" \in upd.supplied
                   THEN upd.materials ELSE row.materials,
     description |-> IF "description" \in upd.supplied
                     THEN upd.description ELSE row.description,
     price |-> IF "price" \in upd.supplied
               THEN ToNumeric2(upd.price) ELSE row.price,
     image_url |-> IF "image_url" \in upd.supplied
                   THEN upd.image_url ELSE row.image_url,
     stock_quantity |-> IF "stock_quantity" \in upd.supplied
                        THEN upd.stock_quantity ELSE row.stock_quantity,
     is_active |-> IF "is_active" \in upd.supplied
                   THEN upd.is_active ELSE row.is_active,
     created_at |-> row.created_at,
     updated_at |-> now]

\* select the item, null when there is none; updateData is built, with the
\* Date of updated_at, before the update statement
UpdateJewelleryItem_Select(p, id, upd) ==
    /\ Start(p)
    /\ LET r == [Call("updateJewelleryItem", "uj_update") EXCEPT
                    !.id = id, !.upd = upd]
       IN  IF id \notin DOMAIN items
           THEN proc' = [proc EXCEPT ![p] = Return(r, "null")]
           ELSE \E now \in Now :
                   proc' = [proc EXCEPT ![p] = [r EXCEPT !.now = now]]
    /\ calls' = calls - 1
    /\ UNCHANGED <<store, nextCartId, nextOrderId, nextOrderItemId>>

\* mutant: a new price is carried into the item's order line items
UpdateJewelleryItem_Update_LivePrice(p) ==
    /\ proc[p].pc = "uj_update"
    /\ items' = [items EXCEPT ![proc[p].id] = ApplyItemUpdate(@, proc[p].upd, proc[p].now)]
    /\ orderItems' = [k \in DOMAIN orderItems |->
            IF orderItems[k].jewellery_item_id = proc[p].id
            THEN [orderItems[k] EXCEPT !.price_per_item =
                     ApplyItemUpdate(items[proc[p].id], proc[p].upd, proc[p].now).price]
            ELSE orderItems[k]]
    /\ proc' = [proc EXCEPT ![p] = [Return(@, "ok") EXCEPT !.ret = proc[p].id]]
    /\ UNCHANGED <<customers, cart, orders, queries, nextCartId,
                   nextOrderId, nextOrderItemId, calls>>

\* mutant: cart rows of the item are cut down to the item's new stock
UpdateJewelleryItem_Update_EagerCarts(p) ==
    /\ proc[p].pc = "uj_update"
    /\ items' = [items EXCEPT ![proc[p].id] = ApplyItemUpdate(@, proc[p].upd, proc[p].now)]
    /\ cart' = [id \in DOMAIN cart |->
                  IF cart[id].jewellery_item_id = proc[p].id
                  THEN [cart[id] EXCEPT !.quantity =
                          Min({@, items'[proc[p].id].stock_quantity})]
                  ELSE cart[id]]
    /\ proc' = [proc EXCEPT ![p] = [Return(@, "ok") EXCEPT !.ret = proc[p].id]]
    /\ UNCHANGED <<customers, orders, orderItems, queries, nextCartId,
                   nextOrderId, nextOrderItemId, calls>>

UpdateJewelleryItem_Update(p) ==
    /\ proc[p].pc = "uj_update"
    /\ items' = [items EXCEPT ![proc[p].id] = ApplyItemUpdate(@, proc[p].upd, proc[p].now)]
    /\ proc' = [proc EXCEPT ![p] = [Return(@, "ok") EXCEPT !.ret = proc[p].id]]
    /\ UNCHANGED <<customers, cart, orders, orderItems, queries, nextCartId,
                   nextOrderId, nextOrderItemId, calls>>

\* mutant: the soft delete also empties the stock
DeleteJewelleryItem_ZeroStock(p, id) ==
    /\ Start(p)
    /\ \E now \in Now :
          items' = [i \in DOMAIN items |->
                       IF i = id THEN [items[i] EXCEPT !.is_active = FALSE,
                                                       !.stock_quantity = 0,
                                                       !.updated_at = now]
                       ELSE items[i]]
    /\ proc' = [proc EXCEPT ![p] =
            Return([Call("deleteJewelleryItem", "done") EXCEPT !.id = id],
                   IF id \in DOMAIN items THEN "true" ELSE "false")]
    /\ calls' = calls - 1
    /\ UNCHANGED <<customers, cart, orders, orderItems, queries, nextCartId,
                   nextOrderId, nextOrderItemId>>

\* soft delete: one update statement that sets is_active and updated_at,
\* true when a row matched
DeleteJewelleryItem(p, id) ==
    /\ Start(p)
    /\ \E now \in Now :
          items' = [i \in DOMAIN items |->
                       IF i = id THEN [items[i] EXCEPT !.is_active = FALSE,
                                                       !.updated_at = now]
                       ELSE items[i]]
    /\ proc' = [proc EXCEPT ![p] =
            Return([Call("deleteJewelleryItem", "done") EXCEPT !.id = id],
                   IF id \in DOMAIN items THEN "true" ELSE "false")]
    /\ calls' = calls - 1
    /\ UNCHANGED <<customers, cart, orders, orderItems, queries, nextCartId,
                   nextOrderId, nextOrderItemId>>

\* mutant: every status field is written, supplied or not
ApplyOrderUpdate_EveryField(row, upd, now) ==
    [row EXCEPT
        !.status = upd.status,
        !.payment_status = upd.payment_status,
        !.payment_method = upd.payment_method,
        !.updated_at = now]

\* the row after `set(updateValues)`: the supplied fields and updated_at
ApplyOrderUpdate(row, upd, now) ==
    [row EXCEPT
        !.status = IF "status" \in upd.supplied THEN upd.status ELSE @,
        !.payment_status = IF "payment_status" \in upd.supplied
                           THEN upd.payment_status ELSE @,
        !.payment_method = IF "payment_method" \in upd.supplied
                           THEN upd.payment_method ELSE @,
        !.updated_at = now]

\* mutant: an id without an order is an error
UpdateOrder_Select_NotFoundError(p, id, upd) ==
    /\ Start(p)
    /\ LET r == [Call("updateOrder", "uo_update") EXCEPT
                    !.id = id, !.upd = upd]
       IN  IF id \notin DOMAIN orders
           THEN proc' = [proc EXCEPT ![p] = Return(r, "Order not found")]
           ELSE \E now \in Now :
                   proc' = [proc EXCEPT ![p] = [r EXCEPT !.now = now]]
    /\ calls' = calls - 1
    /\ UNCHANGED <<store, nextCartId, nextOrderId, nextOrderItemId>>

\* select the order, null when there is none; updateValues is built, with
\* the Date of updated_at, before the update statement
UpdateOrder_Select(p, id, upd) ==
    /\ Start(p)
    /\ LET r == [Call("updateOrder", "uo_update") EXCEPT
                    !.id = id, !.upd = upd]
       IN  IF id \notin DOMAIN orders
           THEN proc' = [proc EXCEPT ![p] = Return(r, "null")]
           ELSE \E now \in Now :
                   proc' = [proc EXCEPT ![p] = [r EXCEPT !.now = now]]
    /\ calls' = calls - 1
    /\ UNCHANGED <<store, nextCartId, nextOrderId, nextOrderItemId>>

\* mutant: a delivered or cancelled order keeps its status
UpdateOrder_Update_TerminalFinal(p) ==
    /\ proc[p].pc = "uo_update"
    /\ IF /\ orders[proc[p].id].status \in {"delivered", "cancelled"}
          /\ "status" \in proc[p].upd.supplied
          /\ proc[p].upd.status # orders[proc[p].id].status
       THEN /\ orders' = orders
            /\ proc' = [proc EXCEPT ![p] = Return(@, "Invalid status transition")]
       ELSE /\ orders' = [orders EXCEPT ![proc[p].id] =
                            ApplyOrderUpdate(@, proc[p].upd, proc[p].now)]
            /\ proc' = [proc EXCEPT ![p] =
                    [Return(@, "ok") EXCEPT !.ret = proc[p].id]]
    /\ UNCHANGED <<items, customers, cart, orderItems, queries, nextCartId,
                   nextOrderId, nextOrderItemId, calls>>

UpdateOrder_Update(p) ==
    /\ proc[p].pc = "uo_update"
    /\ orders' = [orders EXCEPT ![proc[p].id] = ApplyOrderUpdate(@, proc[p].upd, proc[p].now)]
    /\ proc' = [proc EXCEPT ![p] = [Return(@, "ok") EXCEPT !.ret = proc[p].id]]
    /\ UNCHANGED <<items, customers, cart, orderItems, queries, nextCartId,
                   nextOrderId, nextOrderItemId, calls>>

----------------------------------------------------------------------------
(* createJewelleryItem and the catalog reads *)

\* insert one item; the serial id, is_active and both timestamps are the
\* column defaults
CreateJewelleryItem(p, price, stock_quantity) ==
    /\ Start(p)
    /\ Cardinality(DOMAIN items) < MaxItems
    /\ LET id == Cardinality(DOMAIN items) + 1
       IN  /\ \E now \in Now :
                 items' = items @@ (id :>
                     [name |-> "New Item",
                      materials |-> "Gold",
                      description |-> "A new item",
                      price |-> ToNumeric2(price),
                      image_url |-> "null",
                      stock_quantity |-> stock_quantity,
                      is_active |-> TRUE,
                      created_at |-> now,
                      updated_at |-> now])
           /\ proc' = [proc EXCEPT ![p] =
                  [Return(Call("createJewelleryItem", "done"), "ok") EXCEPT
                      !.ret = id]]
    /\ calls' = calls - 1
    /\ UNCHANGED <<customers, cart, orders, orderItems, queries, nextCartId,
                   nextOrderId, nextOrderItemId>>

DefaultPage == 1
DefaultLimit == 10

\* a pagination input: undefined, or a page and a limit
NoPagination == [page |-> 0, limit |-> 0]
PaginationInputs ==
    {NoPagination} \cup [page : 1..MaxPage, limit : 1..MaxLimit]

\* input?.page || 1 and input?.limit || 10
PageOf(input) == IF input.page = 0 THEN DefaultPage ELSE input.page
LimitOf(input) == IF input.limit = 0 THEN DefaultLimit ELSE input.limit

\* order by created_at desc: rows of equal created_at come in any order
OrderByCreatedAtDesc(S) ==
    {f \in Orderings(S) :
        \A i, j \in DOMAIN f :
            i < j => items[f[i]].created_at >= items[f[j]].created_at}

\* limit and offset applied to the ordered rows
LimitOffset(rows, limit, offset) ==
    [i \in 1..Min({limit, Max({0, Len(rows) - offset})}) |-> rows[offset + i]]

\* results.map: the row with its price parsed
ItemRow(id) ==
    [id |-> id,
     name |-> items[id].name,
     materials |-> items[id].materials,
     description |-> items[id].description,
     price |-> ParseFloat(items[id].price),
     image_url |-> items[id].image_url,
     stock_quantity |-> items[id].stock_quantity,
     is_active |-> items[id].is_active,
     created_at |-> items[id].created_at,
     updated_at |-> items[id].updated_at]

\* the catalog rows `matching` selects, ordered, paged and mapped
ListItems(p, op, input, matching) ==
    /\ Start(p)
    /\ \E f \in OrderByCreatedAtDesc(matching) :
          LET limit == LimitOf(input)
              offset == (PageOf(input) - 1) * limit
              results == LimitOffset(f, limit, offset)
          IN  proc' = [proc EXCEPT ![p] =
                  Return([Call(op, "done") EXCEPT
                             !.page = PageOf(input),
                             !.limit = limit,
                             !.out = [i \in DOMAIN results |-> ItemRow(results[i])]],
                         "ok")]
    /\ calls' = calls - 1
    /\ UNCHANGED <<store, nextCartId, nextOrderId, nextOrderItemId>>

\* mutant: the list of active items has no where clause
GetJewelleryItems_NoFilter(p, input) ==
    ListItems(p, "getJewelleryItems", input, DOMAIN items)

GetJewelleryItems(p, input) ==
    ListItems(p, "getJewelleryItems", input,
              {i \in DOMAIN items : items[i].is_active})

GetAllJewelleryItems(p, input) ==
    ListItems(p, "getAllJewelleryItems", input, DOMAIN items)

\* select the item by id; null when there is none
GetJewelleryItem(p, id) ==
    /\ Start(p)
    /\ proc' = [proc EXCEPT ![p] =
            IF id \in DOMAIN items
            THEN Return([Call("getJewelleryItem", "done") EXCEPT
                            !.id = id, !.out = ItemRow(id)], "ok")
            ELSE Return([Call("getJewelleryItem", "done") EXCEPT !.id = id],
                        "null")]
    /\ calls' = calls - 1
    /\ UNCHANGED <<store, nextCartId, nextOrderId, nextOrderItemId>>

----------------------------------------------------------------------------
(* createCustomer *)

CustomersWithEmail(email) ==
    {c \in DOMAIN customers : customers[c].email = email}

\* mutant: no lookup before the insert
CreateCustomer_Select_NoLookup(p, email) ==
    /\ Start(p)
    /\ proc' = [proc EXCEPT ![p] =
            [Call("createCustomer", "cc_insert") EXCEPT !.email = email]]
    /\ calls' = calls - 1
    /\ UNCHANGED <<store, nextCartId, nextOrderId, nextOrderItemId>>

\* select the customers of this email; "already exists" when there is one
CreateCustomer_Select(p, email) ==
    /\ Start(p)
    /\ LET r == [Call("createCustomer", "cc_insert") EXCEPT !.email = email]
       IN  proc' = [proc EXCEPT ![p] =
                IF CustomersWithEmail(email) # {}
                THEN Return(r, "already exists")
                ELSE r]
    /\ calls' = calls - 1
    /\ UNCHANGED <<store, nextCartId, nextOrderId, nextOrderItemId>>

\* mutant: the email column has no unique constraint
CreateCustomer_Insert_NotUnique(p) ==
    /\ proc[p].pc = "cc_insert"
    /\ LET id == Cardinality(DOMAIN customers) + 1
       IN  /\ customers' = customers @@ (id :> [email |-> proc[p].email])
           /\ proc' = [proc EXCEPT ![p] = [Return(@, "ok") EXCEPT !.ret = id]]
    /\ UNCHANGED <<items, cart, orders, orderItems, queries, nextCartId,
                   nextOrderId, nextOrderItemId, calls>>

\* insert the customer; the store rejects a second row of the same email
\* (unique constraint), and the error leaves through the catch block
CreateCustomer_Insert(p) ==
    /\ proc[p].pc = "cc_insert"
    /\ IF CustomersWithEmail(proc[p].email) # {}
       THEN /\ customers' = customers
            /\ proc' = [proc EXCEPT ![p] = Return(@, "duplicate key")]
       ELSE LET id == Cardinality(DOMAIN customers) + 1
            IN  /\ customers' = customers @@ (id :> [email |-> proc[p].email])
                /\ proc' = [proc EXCEPT ![p] =
                       [Return(@, "ok") EXCEPT !.ret = id]]
    /\ UNCHANGED <<items, cart, orders, orderItems, queries, nextCartId,
                   nextOrderId, nextOrderItemId, calls>>

----------------------------------------------------------------------------
(* createCustomerQuery, updateCustomerQuery *)

QueryStatuses == {"new", "in_progress", "resolved"}

\* insert the inquiry with status 'new'
CreateCustomerQuery(p, subject) ==
    /\ Start(p)
    /\ LET id == Len(queries) + 1
       IN  /\ \E now \in Now :
                 queries' = Append(queries,
                    [name |-> "Jane Doe", email |-> "jane@example.com",
                     subject |-> subject, message |-> "Is the ring in stock?",
                     status |-> "new", created_at |-> now, updated_at |-> now])
           /\ proc' = [proc EXCEPT ![p] =
                  [Return(Call("createCustomerQuery", "done"), "ok")
                      EXCEPT !.ret = id]]
    /\ calls' = calls - 1
    /\ UNCHANGED <<items, customers, cart, orders, orderItems,
                   nextCartId, nextOrderId, nextOrderItemId>>

\* mutant: an inquiry's status only moves forward
UpdateCustomerQuery_ForwardOnly(p, id, status) ==
    /\ Start(p)
    /\ LET r == [Call("updateCustomerQuery", "done") EXCEPT
                    !.id = id, !.upd = [NoUpdate EXCEPT !.status = status]]
           rank == [s \in QueryStatuses |->
                      CASE s = "new" -> 1 [] s = "in_progress" -> 2
                        [] OTHER -> 3]
       IN  IF id \in DOMAIN queries /\ rank[status] > rank[queries[id].status]
           THEN /\ \E now \in Now :
                      queries' = [queries EXCEPT ![id].status = status,
                                                 ![id].updated_at = now]
                /\ proc' = [proc EXCEPT ![p] = Return(r, "ok")]
           ELSE /\ queries' = queries
                /\ proc' = [proc EXCEPT ![p] = Return(r, "null")]
    /\ calls' = calls - 1
    /\ UNCHANGED <<items, customers, cart, orders, orderItems,
                   nextCartId, nextOrderId, nextOrderItemId>>

\* update status and updated_at of the inquiry of this id, returning the
\* updated rows; null when there is none
UpdateCustomerQuery(p, id, status) ==
    /\ Start(p)
    /\ LET r == [Call("updateCustomerQuery", "done") EXCEPT
                    !.id = id, !.upd = [NoUpdate EXCEPT !.status = status]]
       IN  IF id \in DOMAIN queries
           THEN /\ \E now \in Now :
                      queries' = [queries EXCEPT ![id].status = status,
                                                 ![id].updated_at = now]
                /\ proc' = [proc EXCEPT ![p] = Return(r, "ok")]
           ELSE /\ queries' = queries
                /\ proc' = [proc EXCEPT ![p] = Return(r, "null")]
    /\ calls' = calls - 1
    /\ UNCHANGED <<items, customers, cart, orders, orderItems,
                   nextCartId, nextOrderId, nextOrderItemId>>

----------------------------------------------------------------------------
(* getOrder *)

\* select the order joined with its customer; null when there is none
GetOrder_SelectOrder(p, id) ==
    /\ Start(p)
    /\ LET r == [Call("getOrder", "go_items") EXCEPT !.id = id]
       IN  proc' = [proc EXCEPT ![p] =
                IF id \in DOMAIN orders
                      /\ orders[id].customer_id \in DOMAIN customers
                THEN [r EXCEPT !.out =
                        <<[order |-> orders[id], order_items |-> <<>>]>>]
                ELSE Return(r, "null")]
    /\ calls' = calls - 1
    /\ UNCHANGED <<store, nextCartId, nextOrderId, nextOrderItemId>>

\* select the order's line items joined with their jewellery items
GetOrder_SelectItems(p) ==
    /\ proc[p].pc = "go_items"
    /\ \E lines \in Orderings({oi \in DOMAIN orderItems :
                      /\ orderItems[oi].order_id = proc[p].id
                      /\ orderItems[oi].jewellery_item_id \in DOMAIN items}) :
          proc' = [proc EXCEPT ![p] =
                     [Return(@, "ok") EXCEPT !.out =
                        <<[order |-> proc[p].out[1].order,
                           order_items |->
                              [i \in DOMAIN lines |-> orderItems[lines[i]]]]>>]]
    /\ UNCHANGED <<store, nextCartId, nextOrderId, nextOrderItemId, calls>>

----------------------------------------------------------------------------
(* getOrders, getCustomerOrders *)

\* rows of orders join customers join order_items join jewellery_items: one
\* per line item (named by the line item's id)
OrderJoinRows(orderIds) ==
    {k \in DOMAIN orderItems :
        /\ orderItems[k].order_id \in orderIds
        /\ orders[orderItems[k].order_id].customer_id \in DOMAIN customers
        /\ orderItems[k].jewellery_item_id \in DOMAIN items}

\* results.forEach over ordersMap: a row opens its order's record when the
\* map has none, and its line item is pushed onto that record
RECURSIVE GroupByOrder(_, _)
GroupByOrder(results, ordersMap) ==
    IF results = <<>> THEN ordersMap
    ELSE LET k == Head(results)
             o == orderItems[k].order_id
             m == IF \E i \in DOMAIN ordersMap : ordersMap[i].id = o
                  THEN ordersMap
                  ELSE Append(ordersMap,
                              [id |-> o,
                               customer_id |-> orders[o].customer_id,
                               total_amount |-> ParseFloat(orders[o].total_amount),
                               order_items |-> <<>>])
         IN  GroupByOrder(Tail(results),
                [i \in DOMAIN m |->
                    IF m[i].id = o
                    THEN [m[i] EXCEPT !.order_items = Append(@, k)]
                    ELSE m[i]])

\* the joined rows of `orderIds` in the order the store returns them (the
\* queries have no order by), limited and offset, then grouped
ListOrders(p, r, input, orderIds) ==
    /\ Start(p)
    /\ \E f \in Orderings(OrderJoinRows(orderIds)) :
          LET limit == LimitOf(input)
              offset == (PageOf(input) - 1) * limit
              results == LimitOffset(f, limit, offset)
          IN  proc' = [proc EXCEPT ![p] =
                  Return([r EXCEPT !.page = PageOf(input),
                                   !.limit = limit,
                                   !.out = GroupByOrder(results, <<>>)],
                         "ok")]
    /\ calls' = calls - 1
    /\ UNCHANGED <<store, nextCartId, nextOrderId, nextOrderItemId>>

GetOrders(p, input) ==
    ListOrders(p, Call("getOrders", "done"), input, DOMAIN orders)

GetCustomerOrders(p, customerId, input) ==
    ListOrders(p, [Call("getCustomerOrders", "done") EXCEPT
                      !.customer_id = customerId],
               input,
               {o \in DOMAIN orders : orders[o].customer_id = customerId})

----------------------------------------------------------------------------
(* A statement of the store may fail: the error leaves the handler through *)
(* its catch block, which logs and rethrows; what the call has written     *)
(* before stays written.                                                   *)

StoreError(p) ==
    /\ Running(p)
    /\ proc' = [proc EXCEPT ![p] = Return(@, "store error")]
    /\ UNCHANGED <<store, nextCartId, nextOrderId, nextOrderItemId, calls>>

----------------------------------------------------------------------------
(* Requests *)

RECURSIVE SumOver(_, _)
SumOver(S, f) ==
    IF S = {} THEN 0
    ELSE LET x == CHOOSE y \in S : TRUE IN f[x] + SumOver(S \ {x}, f)

\* what the session's cart costs now, in mills
CartTotal(sessionId) ==
    SumOver(CartRowsOf(sessionId),
            [id \in DOMAIN cart |->
                ParseFloat(items[cart[id].jewellery_item_id].price)
                    * cart[id].quantity])

\* total_amount of an order request: around what the cart costs, or 100.00
TotalDeltas == {-11, -10, 0, 5}
TotalInputs(sessionId) ==
    {t \in {CartTotal(sessionId) + d : d \in TotalDeltas} \cup {100000} : t > 0}

PriceInputs == {99500, 1005}

\* image_url of an update: a url, or null
ImageUrlInputs == {"https://example.com/ring.jpg", "null"}

ItemFields ==
    {"name", "materials", "description", "price", "image_url",
     "stock_quantity", "is_active"}

ItemUpdates(fieldsets) ==
    {[NoUpdate EXCEPT !.supplied = f,
                      !.name = IF "name" \in f THEN "Updated Ring" ELSE "",
                      !.materials = IF "materials" \in f THEN "Platinum" ELSE "",
                      !.description = IF "description" \in f
                                      THEN "Updated description" ELSE "",
                      !.price = IF "price" \in f THEN pr ELSE 0,
                      !.image_url = IF "image_url" \in f THEN im ELSE "",
                      !.stock_quantity = IF "stock_quantity" \in f THEN st ELSE 0,
                      !.is_active = IF "is_active" \in f THEN a ELSE FALSE] :
        f \in fieldsets, pr \in PriceInputs, im \in ImageUrlInputs,
        st \in Stocks, a \in BOOLEAN}

OrderStatuses == {"pending", "processing", "shipped", "delivered", "cancelled"}

OrderUpdates(fieldsets) ==
    {[NoUpdate EXCEPT !.supplied = f,
                      !.status = IF "status" \in f THEN st ELSE "",
                      !.payment_status = IF "payment_status" \in f THEN "paid" ELSE "",
                      !.payment_method = IF "payment_method" \in f THEN pm ELSE ""] :
        f \in fieldsets, st \in OrderStatuses, pm \in {"paypal", "null"}}

OneField(fields) == {{f} : f \in fields}

CartIdInputs == 1..nextCartId
OrderIdInputs == 1..nextOrderId

----------------------------------------------------------------------------
(* Specifications *)

\* the carts the tests seed: none, or session s1 holding item 1 twice and
\* item 2 once and session s2 holding item 1 once
SeedCart ==
    (1 :> [session_id |-> "s1", jewellery_item_id |-> 1, quantity |-> 2]) @@
    (2 :> [session_id |-> "s1", jewellery_item_id |-> 2, quantity |-> 1]) @@
    (3 :> [session_id |-> "s2", jewellery_item_id |-> 1, quantity |-> 1])

InitStore ==
    /\ items = SeedItems
    /\ customers = SeedCustomers
    /\ cart \in {<<>>, SeedCart}
    /\ orders = <<>>
    /\ orderItems = <<>>
    /\ queries = <<>>
    /\ nextCartId = Len(cart) + 1
    /\ nextOrderId = 1
    /\ nextOrderItemId = 1
    /\ proc = [p \in Procs |-> Idle]

Init ==
    /\ InitStore
    /\ calls = MaxCalls

AddToCart_Steps(p) ==
    \/ AddToCart_SelectExisting(p)
    \/ AddToCart_Update(p)
    \/ AddToCart_Insert(p)

CreateOrder_Steps(p) ==
    \/ CreateOrder_SelectCart(p)
    \/ CreateOrder_InsertOrder(p)
    \/ CreateOrder_InsertItems(p)
    \/ CreateOrder_UpdateStock(p)
    \/ CreateOrder_ClearCart(p)

AddToCart_Call(p) ==
    \E s \in Sessions, i \in ItemIdInputs, q \in Quantities :
        AddToCart_SelectItem(p, s, i, q)

CreateOrder_Call(p) ==
    \E c \in CustomerIdInputs, s \in Sessions :
        \E t \in TotalInputs(s) : CreateOrder_SelectCustomer(p, c, t, s)

CartCalls(p) ==
    \/ \E id \in CartIdInputs, q \in Quantities : UpdateCartItem_Select(p, id, q)
    \/ \E id \in CartIdInputs : RemoveFromCart(p, id)
    \/ \E s \in Sessions : ClearCart(p, s)
    \/ \E s \in Sessions : GetCart(p, s)

AdminCalls(p) ==
    \/ \E id \in ItemIdInputs :
          \E upd \in ItemUpdates(OneField(ItemFields)
                                    \cup {{"stock_quantity", "is_active"}}) :
              UpdateJewelleryItem_Select(p, id, upd)
    \/ \E id \in ItemIdInputs : DeleteJewelleryItem(p, id)
    \/ \E id \in OrderIdInputs :
          \E upd \in OrderUpdates(OneField({"status", "payment_status", "payment_method"})) :
              UpdateOrder_Select(p, id, upd)

SubjectInputs == {"Ring size", "Custom order"}

QueryIdInputs == 1..(Len(queries) + 1)

QueryCalls(p) ==
    \/ \E subject \in SubjectInputs : CreateCustomerQuery(p, subject)
    \/ \E id \in QueryIdInputs, status \in QueryStatuses :
          UpdateCustomerQuery(p, id, status)

OrderReads(p) ==
    \/ \E id \in OrderIdInputs : GetOrder_SelectOrder(p, id)
    \/ \E input \in PaginationInputs : GetOrders(p, input)
    \/ \E c \in CustomerIdInputs, input \in PaginationInputs :
          GetCustomerOrders(p, c, input)

\* one client of the cart, order and administration handlers, one call
\* after the other, any statement of which may fail
Next ==
    \/ AddToCart_Call(1) \/ CreateOrder_Call(1)
    \/ CartCalls(1) \/ AdminCalls(1) \/ OrderReads(1)
    \/ AddToCart_Steps(1) \/ CreateOrder_Steps(1)
    \/ UpdateCartItem_Update(1)
    \/ UpdateJewelleryItem_Update(1)
    \/ UpdateOrder_Update(1)
    \/ GetOrder_SelectItems(1)
    \/ \E id \in ItemIdInputs : GetJewelleryItem(1, id)
    \/ QueryCalls(1)
    \/ StoreError(1)

Spec == Init /\ [][Next]_vars

\* an order request of an existing customer that states what the cart costs
CreateOrder_CallExact(p) ==
    \E s \in Sessions :
        /\ CartTotal(s) > 0
        /\ CreateOrder_SelectCustomer(p, 1, CartTotal(s), s)

\* concurrent clients that add to carts and place orders: the statements of
\* their calls interleave in any order
NextRace ==
    \E p \in Procs :
        \/ AddToCart_Call(p)
        \/ CreateOrder_CallExact(p)
        \/ AddToCart_Steps(p)
        \/ CreateOrder_Steps(p)

SpecRace == Init /\ [][NextRace]_vars

\* concurrent addToCart calls; createOrder runs while no other call does
NoOrderInFlight == \A q \in Procs : Running(q) => proc[q].op # "createOrder"

InitCartRace ==
    /\ InitStore
    /\ calls = MaxRaceCalls

NextCartRace ==
    \E p \in Procs :
        \/ NoOrderInFlight /\ AddToCart_Call(p)
        \/ Quiet /\ CreateOrder_CallExact(p)
        \/ AddToCart_Steps(p)
        \/ CreateOrder_Steps(p)

SpecCartRace == InitCartRace /\ [][NextCartRace]_vars

\* the order desk: orders are placed and their status is updated, one call
\* after the other
NextOrderDesk ==
    \/ CreateOrder_CallExact(1)
    \/ CreateOrder_Steps(1)
    \/ \E id \in OrderIdInputs : \E upd \in OrderUpdates({{"status"}}) :
          UpdateOrder_Select(1, id, upd)
    \/ UpdateOrder_Update(1)

SpecOrderDesk == InitCartRace /\ [][NextOrderDesk]_vars

\* one client after the other shops, orders and restocks: sessions fill
\* their carts, orders are placed, and the administrator sets an item's stock
\* or availability
NextLazyStock ==
    \/ AddToCart_Call(1)
    \/ AddToCart_Steps(1)
    \/ CreateOrder_CallExact(1)
    \/ CreateOrder_Steps(1)
    \/ \E id \in CartIdInputs, q \in Quantities : UpdateCartItem_Select(1, id, q)
    \/ UpdateCartItem_Update(1)
    \/ \E id \in ItemIdInputs :
          \E upd \in ItemUpdates({{"stock_quantity"}, {"is_active"}}) :
              UpdateJewelleryItem_Select(1, id, upd)
    \/ UpdateJewelleryItem_Update(1)

SpecLazyStock == InitCartRace /\ [][NextLazyStock]_vars

\* concurrent clients that write stock and carts: items are created and
\* restocked while sessions change their carts and place orders, and the
\* statements of their calls interleave in any order
NextStock ==
    \E p \in Procs :
        \/ \E stock \in Stocks : CreateJewelleryItem(p, 1005, stock)
        \/ \E id \in ItemIdInputs :
              \E upd \in ItemUpdates({{"stock_quantity"}}) :
                  UpdateJewelleryItem_Select(p, id, upd)
        \/ UpdateJewelleryItem_Update(p)
        \/ AddToCart_Call(p)
        \/ AddToCart_Steps(p)
        \/ \E id \in CartIdInputs, q \in Quantities : UpdateCartItem_Select(p, id, q)
        \/ UpdateCartItem_Update(p)
        \/ \E id \in CartIdInputs : RemoveFromCart(p, id)
        \/ CreateOrder_CallExact(p)
        \/ CreateOrder_Steps(p)

SpecStock == Init /\ [][NextStock]_vars

\* clients of the catalog: items are created and soft-deleted while lists
\* and single items are read; every call is one statement
InitLists ==
    /\ InitStore
    /\ calls = MaxRaceCalls

CatalogReads(p) ==
    \/ \E input \in PaginationInputs : GetJewelleryItems(p, input)
    \/ \E input \in PaginationInputs : GetAllJewelleryItems(p, input)
    \/ \E id \in ItemIdInputs : GetJewelleryItem(p, id)

NextLists ==
    \E p \in Procs :
        \/ CatalogReads(p)
        \/ \E price \in PriceInputs : CreateJewelleryItem(p, price, MaxStock)
        \/ \E id \in ItemIdInputs : DeleteJewelleryItem(p, id)

SpecLists == InitLists /\ [][NextLists]_vars

\* emails of createCustomer requests: the seeded customer's and two others
EmailInputs == {"test@example.com", "jane@example.com", "bob@example.com"}

\* concurrent createCustomer calls: their statements interleave in any order
NextCustomers ==
    \E p \in Procs :
        \/ \E email \in EmailInputs : CreateCustomer_Select(p, email)
        \/ CreateCustomer_Insert(p)

SpecCustomers == InitLists /\ [][NextCustomers]_vars

\* the inquiry desk: inquiries are created and their status is updated, one
\* call after the other
NextQueries == QueryCalls(1)

SpecQueries == InitLists /\ [][NextQueries]_vars

----------------------------------------------------------------------------
(* Properties *)

PreItems(r) == r.pre[1]
PreCart(r) == r.pre[3]
PreOrders(r) == r.pre[4]
PreOrderItems(r) == r.pre[5]

Returned(p, op) == proc[p].op = op /\ proc[p].pc = "done"

OrderValidationErrors ==
    {"Customer not found", "Cart is empty", "no longer available",
     "Insufficient stock", "Total amount mismatch"}

CartValidationErrors == {"not found", "is not available", "Insufficient stock"}

ItemsOfOrder(orderId) ==
    {k \in DOMAIN orderItems : orderItems[k].order_id = orderId}

\* quantity of item i in the line items of an order
OrderedQuantity(orderId, i) ==
    SumOver({k \in ItemsOfOrder(orderId) : orderItems[k].jewellery_item_id = i},
            [k \in DOMAIN orderItems |-> orderItems[k].quantity])

\* sum of price_per_item * quantity over the line items of an order, in cents
LineItemsTotal(orderId) ==
    SumOver(ItemsOfOrder(orderId),
            [k \in DOMAIN orderItems |->
                orderItems[k].price_per_item * orderItems[k].quantity])

\* C1: a createOrder call that ends in a store error leaves the store as it
\* was when the call started: no order row, no line item, no stock change
\* and no cart deletion of that call remains.
C1_AllOrNothing ==
    \A p \in Procs :
        (Returned(p, "createOrder") /\ proc[p].result = "store error")
            => store = proc[p].pre

\* C2: when two createOrder calls of different sessions have both succeeded
\* and theirs are the only orders, every item's stock is its seeded stock
\* minus the quantities the two orders hold of it.
C2_ConcurrentOrdersSerialize ==
    \A p, q \in Procs :
        ( /\ p # q
          /\ Returned(p, "createOrder") /\ proc[p].result = "ok"
          /\ Returned(q, "createOrder") /\ proc[q].result = "ok"
          /\ proc[p].session # proc[q].session
          /\ DOMAIN orders = {proc[p].ret, proc[q].ret} )
        => \A i \in DOMAIN items :
              items[i].stock_quantity =
                  SeedItems[i].stock_quantity
                      - OrderedQuantity(proc[p].ret, i)
                      - OrderedQuantity(proc[q].ret, i)

\* C3: a createOrder call that fails validation (customer not found, cart
\* is empty, no longer available, insufficient stock, total amount
\* mismatch) leaves every table as it was when the call started.
C3_ValidationFailureChangesNothing ==
    \A p \in Procs :
        (Returned(p, "createOrder") /\ proc[p].result \in OrderValidationErrors)
            => store = proc[p].pre

\* a createOrder call failed on insufficient stock, with rows in the cart
C3_Witness ==
    /\ Returned(1, "createOrder")
    /\ proc[1].result = "Insufficient stock"
    /\ CartRowsOf(proc[1].session) # {}

\* C4: right after a successful createOrder every item's stock is its stock
\* at the start of the call minus the quantity the new order's line items
\* hold of it.
C4_StockDecrementedByOrdered ==
    \A p \in Procs :
        ( /\ Returned(p, "createOrder") /\ proc[p].result = "ok"
          /\ ~(\E q \in Procs : Running(q) /\ proc[q].op = "createOrder")
          /\ proc[p].ret = nextOrderId - 1 )
        => \A i \in DOMAIN items :
              items[i].stock_quantity =
                  PreItems(proc[p])[i].stock_quantity
                      - OrderedQuantity(proc[p].ret, i)

\* C5: a successful createOrder has created exactly one order, pending and
\* payment pending, and exactly one line item per cart row the session had
\* (same item and quantity, price_per_item the catalog price at the call);
\* the session has no cart row left and the other sessions' rows are as
\* they were.
C5_SuccessfulOrder ==
    \A p \in Procs :
        (Returned(p, "createOrder") /\ proc[p].result = "ok") =>
            LET r == proc[p]
                rows == {id \in DOMAIN PreCart(r) :
                            PreCart(r)[id].session_id = r.session}
                new == DOMAIN orderItems \ DOMAIN PreOrderItems(r)
            IN  /\ DOMAIN orders \ DOMAIN PreOrders(r) = {r.ret}
                /\ orders[r.ret].status = "pending"
                /\ orders[r.ret].payment_status = "pending"
                /\ orders[r.ret].customer_id = r.customer_id
                /\ new = ItemsOfOrder(r.ret)
                /\ \E f \in [new -> rows] :
                      /\ \A a, b \in new : f[a] = f[b] => a = b
                      /\ \A id \in rows : \E k \in new : f[k] = id
                      /\ \A k \in new :
                            /\ orderItems[k].jewellery_item_id =
                                   PreCart(r)[f[k]].jewellery_item_id
                            /\ orderItems[k].quantity = PreCart(r)[f[k]].quantity
                            /\ orderItems[k].price_per_item =
                                   PreItems(r)[PreCart(r)[f[k]].jewellery_item_id].price
                /\ CartRowsOf(r.session) = {}
                /\ DOMAIN cart = DOMAIN PreCart(r) \ rows
                /\ \A id \in DOMAIN cart : cart[id] = PreCart(r)[id]

\* an order of two cart rows was placed while another session holds a row
C5_Witness ==
    /\ Returned(1, "createOrder")
    /\ proc[1].result = "ok"
    /\ Cardinality(ItemsOfOrder(proc[1].ret)) = 2
    /\ cart # <<>>

\* C6: the total_amount stored with an order differs from the sum of
\* price_per_item * quantity over its line items by at most one cent, once
\* the order has its line items.
C6_TotalWithinOneCent ==
    \A o \in DOMAIN orders :
        ItemsOfOrder(o) # {} =>
            Abs(orders[o].total_amount - LineItemsTotal(o)) <= 1

\* an order stands whose stored total is one cent off its line items' sum
C6_Witness ==
    \E o \in DOMAIN orders :
        /\ ItemsOfOrder(o) # {}
        /\ Abs(orders[o].total_amount - LineItemsTotal(o)) = 1

\* C7: no step changes or removes an order line item that exists.
C7_LineItemsImmutable ==
    [][\A k \in DOMAIN orderItems :
          k \in DOMAIN orderItems' /\ orderItems'[k] = orderItems[k]]_vars

\* an updateJewelleryItem call has returned and a line item stands whose
\* price_per_item differs from its item's catalog price
C7_Witness ==
    \E k \in DOMAIN orderItems :
        /\ orderItems[k].price_per_item # items[orderItems[k].jewellery_item_id].price
        /\ Returned(1, "updateJewelleryItem")

\* C8: the cart holds at most one row per (session_id, jewellery_item_id).
C8_OneRowPerSessionAndItem ==
    \A a, b \in DOMAIN cart :
        ( /\ cart[a].session_id = cart[b].session_id
          /\ cart[a].jewellery_item_id = cart[b].jewellery_item_id )
        => a = b

\* C9: an addToCart call for a (session, item) pair that had a cart row
\* adds no row; when the item is active and the row's quantity plus the
\* requested quantity is within the item's stock it returns that row's id
\* and the row holds the sum, and it succeeds in no other case.  For a pair
\* without a row a successful call has inserted exactly one row, with the
\* requested quantity, and it succeeds when the item is active and the
\* requested quantity is within stock.  No other cart row changes.
C9_AddToCartMergesOrInserts ==
    \A p \in Procs :
        (Returned(p, "addToCart") /\ proc[p].result # "store error") =>
            LET r == proc[p]
                had == {id \in DOMAIN PreCart(r) :
                           /\ PreCart(r)[id].session_id = r.session
                           /\ PreCart(r)[id].jewellery_item_id = r.item}
                available == /\ r.item \in DOMAIN PreItems(r)
                             /\ PreItems(r)[r.item].is_active
            IN  IF had # {}
                THEN LET e == CHOOSE id \in had : TRUE
                         sum == PreCart(r)[e].quantity + r.quantity
                         fits == available /\ sum <= PreItems(r)[r.item].stock_quantity
                     IN  /\ DOMAIN cart = DOMAIN PreCart(r)
                         /\ r.result = "ok" <=> fits
                         /\ fits => /\ r.ret = e
                                    /\ cart = [PreCart(r) EXCEPT ![e].quantity = sum]
                ELSE LET fits == available /\ r.quantity <= PreItems(r)[r.item].stock_quantity
                     IN  /\ r.result = "ok" <=> fits
                         /\ fits => /\ r.ret \notin DOMAIN PreCart(r)
                                    /\ cart = PreCart(r) @@ (r.ret :>
                                          [session_id |-> r.session,
                                           jewellery_item_id |-> r.item,
                                           quantity |-> r.quantity])

\* an addToCart call has merged its quantity into the pair's row
C9_Witness ==
    /\ Returned(1, "addToCart")
    /\ proc[1].result = "ok"
    /\ proc[1].ret \in DOMAIN PreCart(proc[1])
    /\ cart[proc[1].ret].quantity > proc[1].quantity

\* C10: an addToCart call that fails (not found, not available, insufficient
\* stock) has written nothing: the cart and every other table are as they
\* were when the call started.
C10_FailedAddWritesNothing ==
    \A p \in Procs :
        (Returned(p, "addToCart") /\ proc[p].result \in CartValidationErrors)
            => store = proc[p].pre

\* an addToCart call failed because the pair's row plus the requested
\* quantity exceeds the stock
C10_Witness ==
    /\ Returned(1, "addToCart")
    /\ proc[1].result = "Insufficient stock"
    /\ ExistingCartItems(proc[1].session, proc[1].item) # {}
    /\ proc[1].quantity <= items[proc[1].item].stock_quantity

\* C11: every step that writes a quantity into a cart row (a new row, or a
\* row whose quantity changes) writes a quantity that does not exceed the
\* stock_quantity the row's item has in the store at that step.
C11_CartWriteWithinStock ==
    [][\A id \in DOMAIN cart' :
          (id \notin DOMAIN cart \/ cart'[id].quantity # cart[id].quantity)
              => cart'[id].quantity <=
                     items'[cart'[id].jewellery_item_id].stock_quantity]_vars

\* the row a call named by id, and its item, when the call started
NamedRow(r) == PreCart(r)[r.id]
NamedItem(r) == PreItems(r)[NamedRow(r).jewellery_item_id]

\* C12 as stated: an updateCartItem call on an existing row whose item is
\* inactive fails with "no longer available" whatever quantity it requests,
\* and the cart is as it was.
C12_InactiveItemNoLongerAvailable ==
    \A p \in Procs :
        ( /\ Returned(p, "updateCartItem")
          /\ proc[p].id \in DOMAIN PreCart(proc[p])
          /\ ~NamedItem(proc[p]).is_active )
        => /\ proc[p].result = "no longer available"
           /\ cart = PreCart(proc[p])

\* C12: an updateCartItem call on an existing row whose item is inactive
\* always fails and leaves the store as it was: with "Insufficient stock"
\* when the requested quantity exceeds the item's stock, and with "no longer
\* available" otherwise.
C12_InactiveItemUpdateFails ==
    \A p \in Procs :
        ( /\ Returned(p, "updateCartItem")
          /\ proc[p].id \in DOMAIN PreCart(proc[p])
          /\ ~NamedItem(proc[p]).is_active )
        => /\ proc[p].result =
                  IF proc[p].quantity > NamedItem(proc[p]).stock_quantity
                  THEN "Insufficient stock" ELSE "no longer available"
           /\ store = proc[p].pre

\* an updateCartItem call on a row of an inactive item asked for a quantity
\* within the item's stock and failed
C12_Witness ==
    /\ Returned(1, "updateCartItem")
    /\ proc[1].id \in DOMAIN PreCart(proc[1])
    /\ ~NamedItem(proc[1]).is_active
    /\ proc[1].quantity <= NamedItem(proc[1]).stock_quantity
    /\ proc[1].result = "no longer available"

\* C13: removeFromCart returns true and has deleted exactly the row of the
\* given id when that row existed, returns false and has changed nothing
\* when it did not; every other cart row and every other table is as it was.
C13_RemoveDeletesExactlyOneRow ==
    \A p \in Procs :
        Returned(p, "removeFromCart") =>
            LET r == proc[p]
            IN  /\ r.result = IF r.id \in DOMAIN PreCart(r) THEN "true" ELSE "false"
                /\ DOMAIN cart = DOMAIN PreCart(r) \ {r.id}
                /\ \A id \in DOMAIN cart : cart[id] = PreCart(r)[id]
                /\ <<items, customers, orders, orderItems>> =
                       <<r.pre[1], r.pre[2], r.pre[4], r.pre[5]>>

\* a row was removed while another session holds a row of the same item
C13_Witness ==
    /\ Returned(1, "removeFromCart")
    /\ proc[1].result = "true"
    /\ \E id \in DOMAIN cart :
          /\ cart[id].jewellery_item_id = NamedRow(proc[1]).jewellery_item_id
          /\ cart[id].session_id # NamedRow(proc[1]).session_id

\* C14: clearCart returns true; after it the session has no cart row, the
\* rows of every other session are as they were, and so are the catalog
\* items and every other table.
C14_ClearCartEmptiesSession ==
    \A p \in Procs :
        Returned(p, "clearCart") =>
            LET r == proc[p]
                others == {id \in DOMAIN PreCart(r) :
                              PreCart(r)[id].session_id # r.session}
            IN  /\ r.result = "true"
                /\ CartRowsOf(r.session) = {}
                /\ DOMAIN cart = others
                /\ \A id \in others : cart[id] = PreCart(r)[id]
                /\ <<items, customers, orders, orderItems>> =
                       <<r.pre[1], r.pre[2], r.pre[4], r.pre[5]>>

\* a session that held several rows was cleared while another session
\* holds a row
C14_Witness ==
    /\ Returned(1, "clearCart")
    /\ Cardinality({id \in DOMAIN PreCart(proc[1]) :
                       PreCart(proc[1])[id].session_id = proc[1].session}) > 1
    /\ cart # <<>>

\* C15: getCart returns one entry per cart row of the session and no other
\* entry, each with the row's quantity and the row's item, and a
\* total_amount that is the sum over those rows of the item's catalog price
\* times the quantity; for a session without rows the list is empty and the
\* total 0; the call fails in no case and the store is as it was.
C15_GetCartRowsAndTotal ==
    \A p \in Procs :
        Returned(p, "getCart") =>
            LET r == proc[p]
                rows == CartRowsOf(r.session)
                its == r.out.items
            IN  /\ r.result = "ok"
                /\ store = r.pre
                /\ Len(its) = Cardinality(rows)
                /\ {its[i].id : i \in DOMAIN its} = rows
                /\ \A i \in DOMAIN its :
                      /\ its[i].quantity = cart[its[i].id].quantity
                      /\ its[i].jewellery_item.id = cart[its[i].id].jewellery_item_id
                      /\ its[i].jewellery_item.price =
                             ParseFloat(items[its[i].jewellery_item.id].price)
                /\ r.out.total_amount = CartTotal(r.session)
                /\ rows = {} => (its = <<>> /\ r.out.total_amount = 0)

\* getCart returned the two rows of a session while another session holds
\* a row
C15_Witness ==
    /\ Returned(1, "getCart")
    /\ Len(proc[1].out.items) = 2
    /\ proc[1].out.total_amount > 0
    /\ Cardinality(DOMAIN cart) > 2

\* a deleteJewelleryItem call on an item that was already inactive
DeletedAgain(p) ==
    /\ Returned(p, "deleteJewelleryItem")
    /\ proc[p].id \in DOMAIN PreItems(proc[p])
    /\ ~PreItems(proc[p])[proc[p].id].is_active

\* C16 as stated: deleteJewelleryItem on an item that is already inactive
\* returns true and leaves every field of the item as it was.
C16_SecondDeleteKeepsEveryField ==
    \A p \in Procs :
        DeletedAgain(p) =>
            /\ proc[p].result = "true"
            /\ items[proc[p].id] = PreItems(proc[p])[proc[p].id]

\* C16: deleteJewelleryItem returns false exactly when the id names no
\* item, and true otherwise; on an item that is already inactive it returns
\* true, is_active stays false and every other field but updated_at is as
\* it was; updated_at is refreshed and never moves back.
C16_DeleteIdempotent ==
    \A p \in Procs :
        Returned(p, "deleteJewelleryItem") =>
            LET r == proc[p]
            IN  /\ r.result = IF r.id \in DOMAIN PreItems(r) THEN "true" ELSE "false"
                /\ DeletedAgain(p) =>
                      /\ ~items[r.id].is_active
                      /\ items[r.id] =
                            [PreItems(r)[r.id] EXCEPT
                                !.updated_at = items[r.id].updated_at]
                      /\ items[r.id].updated_at >= PreItems(r)[r.id].updated_at

\* an inactive item was deleted again and the call refreshed updated_at
C16_Witness ==
    /\ DeletedAgain(1)
    /\ proc[1].result = "true"
    /\ items[proc[1].id].stock_quantity > 0
    /\ items[proc[1].id].updated_at > PreItems(proc[1])[proc[1].id].updated_at

\* ids of the rows a list call returned
ReturnedIds(r) == {r.out[i].id : i \in DOMAIN r.out}

\* rows a query of n matching rows returns for a page and a limit
PageCount(n, page, limit) == Min({limit, Max({0, n - (page - 1) * limit})})

\* C17: getJewelleryItems returns only items that are active, for every
\* page and limit; getAllJewelleryItems pages over all items, active or not,
\* so its first page holds every item when the limit allows; getJewelleryItem
\* returns the item of an existing id whether it is active or not.
C17_ActiveFilter ==
    \A p \in Procs :
        LET r == proc[p]
        IN  /\ Returned(p, "getJewelleryItems") =>
                  \A id \in ReturnedIds(r) :
                      id \in DOMAIN PreItems(r) /\ PreItems(r)[id].is_active
            /\ Returned(p, "getAllJewelleryItems") =>
                  /\ ReturnedIds(r) \subseteq DOMAIN PreItems(r)
                  /\ Len(r.out) = PageCount(Cardinality(DOMAIN PreItems(r)),
                                            r.page, r.limit)
                  /\ Cardinality(ReturnedIds(r)) = Len(r.out)
                  /\ (r.page = 1 /\ r.limit >= Cardinality(DOMAIN PreItems(r)))
                        => ReturnedIds(r) = DOMAIN PreItems(r)
            /\ Returned(p, "getJewelleryItem") =>
                  IF r.id \in DOMAIN PreItems(r)
                  THEN /\ r.result = "ok"
                       /\ r.out.id = r.id
                       /\ r.out.is_active = PreItems(r)[r.id].is_active
                  ELSE r.result = "null"

\* an item was soft-deleted; the list of active items came back without it
\* while the list of all items holds it
C17_Witness ==
    \E p, q \in Procs :
        /\ Returned(p, "getJewelleryItems")
        /\ Returned(q, "getAllJewelleryItems")
        /\ proc[p].pre = store /\ proc[q].pre = store
        /\ proc[p].out # <<>>
        /\ \E id \in ReturnedIds(proc[q]) \ ReturnedIds(proc[p]) :
              ~items[id].is_active

\* the catalog rows a list call pages over, as they were when it ran
Matching(r) ==
    IF r.op = "getJewelleryItems"
    THEN {i \in DOMAIN PreItems(r) : PreItems(r)[i].is_active}
    ELSE DOMAIN PreItems(r)

ListCall(p) ==
    Returned(p, "getJewelleryItems") \/ Returned(p, "getAllJewelleryItems")

\* page p with limit l over n matching rows holds min(l, max(0, n-(p-1)*l))
\* rows
PageHoldsCount ==
    \A p \in Procs :
        ListCall(p) =>
            Len(proc[p].out) =
                PageCount(Cardinality(Matching(proc[p])), proc[p].page, proc[p].limit)

\* two consecutive pages of one list, read with the same limit from the
\* same store, share no row
ConsecutivePagesDisjoint ==
    \A p, q \in Procs :
        ( /\ ListCall(p) /\ ListCall(q)
          /\ proc[p].op = proc[q].op
          /\ proc[p].limit = proc[q].limit
          /\ proc[q].page = proc[p].page + 1
          /\ proc[p].pre = proc[q].pre )
        => ReturnedIds(proc[p]) \cap ReturnedIds(proc[q]) = {}

\* C18: a catalog list call for page p with limit l over n matching rows
\* returns min(l, max(0, n - (p-1)*l)) rows, and two consecutive pages read
\* from the same unchanged store share no row, also when rows have the same
\* created_at.
C18_PagesCountAndDisjoint == PageHoldsCount /\ ConsecutivePagesDisjoint

\* C19: every order a getOrders or getCustomerOrders call returns appears
\* once in the result and its order_items are all the line items of that
\* order, for every page and limit; getCustomerOrders returns only orders of
\* the given customer.
C19_OrdersWholeAndOnce ==
    \A p \in Procs :
        (Returned(p, "getOrders") \/ Returned(p, "getCustomerOrders")) =>
            LET r == proc[p]
            IN  /\ \A i, j \in DOMAIN r.out : r.out[i].id = r.out[j].id => i = j
                /\ \A i \in DOMAIN r.out :
                      {r.out[i].order_items[n] : n \in DOMAIN r.out[i].order_items}
                          = ItemsOfOrder(r.out[i].id)
                /\ r.op = "getCustomerOrders" =>
                      \A i \in DOMAIN r.out : r.out[i].customer_id = r.customer_id

StoredItemValue(upd, f) == IF f = "price" THEN ToNumeric2(upd.price) ELSE upd[f]

\* C21: an updateJewelleryItem call on an existing item writes the supplied
\* ones of name, materials, description, price, image_url, stock_quantity
\* and is_active (a null image_url and a zero stock_quantity included) and
\* updated_at; every unsupplied field and created_at keep their values, and
\* no other item, no cart row and no other table is modified.
C21_UpdateItemFrame ==
    \A p \in Procs :
        (Returned(p, "updateJewelleryItem") /\ proc[p].result = "ok") =>
            LET r == proc[p]
                old == PreItems(r)[r.id]
                new == items[r.id]
            IN  /\ DOMAIN items = DOMAIN PreItems(r)
                /\ \A i \in DOMAIN items \ {r.id} : items[i] = PreItems(r)[i]
                /\ \A f \in ItemFields :
                      new[f] = IF f \in r.upd.supplied
                               THEN StoredItemValue(r.upd, f) ELSE old[f]
                /\ new.created_at = old.created_at
                /\ new.updated_at >= old.updated_at
                /\ cart = PreCart(r)
                /\ <<customers, orders, orderItems>> = <<r.pre[2], r.pre[4], r.pre[5]>>

\* an update set the stock of an item in stock to zero while carts hold rows
C21_Witness ==
    /\ Returned(1, "updateJewelleryItem")
    /\ proc[1].result = "ok"
    /\ proc[1].upd.supplied = {"stock_quantity"}
    /\ PreItems(proc[1])[proc[1].id].stock_quantity > 0
    /\ items[proc[1].id].stock_quantity = 0
    /\ cart # <<>>

PreCustomers(r) == r.pre[2]
PreEmails(r) == {PreCustomers(r)[c].email : c \in DOMAIN PreCustomers(r)}

\* customers of the call's email that were inserted after the call started
\* and are not the call's own
InsertedByOthers(r) ==
    {c \in CustomersWithEmail(r.email) \ DOMAIN PreCustomers(r) :
        ~(r.result = "ok" /\ r.ret = c)}

\* C22: a createCustomer call whose email a customer already had when the
\* call started fails with "already exists" and no customer of that email is
\* added; a call whose email no customer has and no other call inserts
\* succeeds with a new id that holds the email, and successful calls have
\* pairwise distinct ids.
C22_CreateCustomerUniqueEmail ==
    \A p \in Procs :
        Returned(p, "createCustomer") =>
            LET r == proc[p]
            IN  /\ r.email \in PreEmails(r) =>
                      /\ r.result = "already exists"
                      /\ CustomersWithEmail(r.email) \subseteq DOMAIN PreCustomers(r)
                /\ (r.email \notin PreEmails(r) /\ InsertedByOthers(r) = {})
                      => r.result = "ok"
                /\ r.result = "ok" =>
                      /\ r.ret \in DOMAIN customers \ DOMAIN PreCustomers(r)
                      /\ customers[r.ret].email = r.email
                      /\ \A q \in Procs \ {p} :
                            (Returned(q, "createCustomer") /\ proc[q].result = "ok")
                                => proc[q].ret # r.ret

\* two calls with distinct new emails succeeded, and a call with a present
\* email is refused
C22_Witness ==
    /\ Cardinality(DOMAIN customers) = 3
    /\ \E p \in Procs :
          /\ Returned(p, "createCustomer")
          /\ proc[p].result = "already exists"

\* C23: no two customers have the same email, under every interleaving of
\* createCustomer calls; of the calls that pass the lookup with one email at
\* most one inserts and the others fail.
C23_EmailsUnique ==
    /\ \A c, d \in DOMAIN customers :
          customers[c].email = customers[d].email => c = d
    /\ \A p, q \in Procs :
          ( /\ p # q
            /\ Returned(p, "createCustomer") /\ Returned(q, "createCustomer")
            /\ proc[p].email = proc[q].email )
          => ~(proc[p].result = "ok" /\ proc[q].result = "ok")

\* two calls with the same email both passed the lookup; one inserted and
\* the store refused the other
C23_Witness ==
    \E p, q \in Procs :
        /\ Returned(p, "createCustomer") /\ proc[p].result = "ok"
        /\ Returned(q, "createCustomer") /\ proc[q].result = "duplicate key"
        /\ proc[p].email = proc[q].email

PreQueries(r) == r.pre[6]

\* C24: createCustomerQuery stores the inquiry with status 'new' and leaves
\* the others alone; updateCustomerQuery on an existing inquiry sets its
\* status to the given value whatever its status was, and changes nothing but
\* that inquiry's status and updated_at.
C24_QueryStatusLifecycle ==
    /\ Returned(1, "createCustomerQuery") =>
          LET r == proc[1]
          IN  /\ r.result = "ok"
              /\ DOMAIN queries = DOMAIN PreQueries(r) \cup {r.ret}
              /\ r.ret \notin DOMAIN PreQueries(r)
              /\ queries[r.ret].status = "new"
              /\ \A q \in DOMAIN PreQueries(r) : queries[q] = PreQueries(r)[q]
    /\ (Returned(1, "updateCustomerQuery") /\ proc[1].id \in DOMAIN PreQueries(proc[1])) =>
          LET r == proc[1]
              old == PreQueries(r)[r.id]
              new == queries[r.id]
          IN  /\ r.result = "ok"
              /\ DOMAIN queries = DOMAIN PreQueries(r)
              /\ new.status = r.upd.status
              /\ new.updated_at >= old.updated_at
              /\ [new EXCEPT !.status = old.status, !.updated_at = old.updated_at] = old
              /\ \A q \in DOMAIN queries \ {r.id} : queries[q] = PreQueries(r)[q]
              /\ <<items, customers, cart, orders, orderItems>>
                    = <<r.pre[1], r.pre[2], r.pre[3], r.pre[4], r.pre[5]>>

\* a resolved inquiry was set back to 'new'
C24_Witness ==
    /\ Returned(1, "updateCustomerQuery")
    /\ proc[1].result = "ok"
    /\ PreQueries(proc[1])[proc[1].id].status = "resolved"
    /\ queries[proc[1].id].status = "new"

\* the ids the table a by-id handler looks in held when the call started
PreIdsOf(r) ==
    CASE r.op \in {"getJewelleryItem", "updateJewelleryItem"} -> DOMAIN PreItems(r)
      [] r.op \in {"getOrder", "updateOrder"} -> DOMAIN PreOrders(r)
      [] r.op = "updateCartItem" -> DOMAIN PreCart(r)
      [] r.op = "updateCustomerQuery" -> DOMAIN PreQueries(r)
      [] OTHER -> {}

ByIdHandlers ==
    {"getJewelleryItem", "getOrder", "updateJewelleryItem", "updateOrder",
     "updateCartItem", "updateCustomerQuery"}

\* C25: a call of getJewelleryItem, getOrder, updateJewelleryItem,
\* updateOrder, updateCartItem or updateCustomerQuery with an id its table
\* does not hold returns null, and the store is as it was before the call.
C25_MissingIdReturnsNull ==
    \A op \in ByIdHandlers :
        (Returned(1, op) /\ proc[1].id \notin PreIdsOf(proc[1])) =>
            /\ proc[1].result = "null"
            /\ store = proc[1].pre

\* updateOrder was called with an id no order has while an order exists
C25_Witness ==
    /\ Returned(1, "updateOrder")
    /\ proc[1].id \notin DOMAIN orders
    /\ DOMAIN orders # {}
    /\ proc[1].result = "null"

\* what a cart row fails with against the items as they were before the call
PreRowFailure(r, id) ==
    LET row  == PreCart(r)[id]
        item == PreItems(r)[row.jewellery_item_id]
    IN  IF ~item.is_active THEN "no longer available"
        ELSE IF item.stock_quantity < row.quantity THEN "Insufficient stock"
        ELSE "ok"

PreSessionRows(r) ==
    {id \in DOMAIN PreCart(r) : PreCart(r)[id].session_id = r.session}

PreSessionTotal(r) ==
    SumOver(PreSessionRows(r),
            [id \in PreSessionRows(r) |->
                ParseFloat(PreItems(r)[PreCart(r)[id].jewellery_item_id].price)
                    * PreCart(r)[id].quantity])

\* C26: a createOrder call that the store lets run reports the first failed
\* precondition in the order customer, empty cart, rows (a row of an inactive
\* item is "no longer available" before it is "Insufficient stock"), total:
\* each failure is reported only when the ones before it did not occur, and
\* is reported whatever the later ones are.
C26_CheckOrder ==
    (Returned(1, "createOrder") /\ proc[1].result # "store error") =>
        LET r == proc[1]
            rows == PreSessionRows(r)
            failures == {PreRowFailure(r, id) : id \in rows} \ {"ok"}
            wrongTotal == Abs(PreSessionTotal(r) - r.total_amount) > Tolerance
        IN  IF r.customer_id \notin DOMAIN r.pre[2]
            THEN r.result = "Customer not found"
            ELSE IF rows = {} THEN r.result = "Cart is empty"
            ELSE IF failures # {} THEN r.result \in failures
            ELSE IF wrongTotal THEN r.result = "Total amount mismatch"
            ELSE r.result = "ok"

\* a cart with a row of an inactive item, and a total that is wrong, was
\* refused as "no longer available"
C26_Witness ==
    /\ Returned(1, "createOrder")
    /\ proc[1].result = "no longer available"
    /\ proc[1].customer_id \in DOMAIN customers
    /\ Abs(PreSessionTotal(proc[1]) - proc[1].total_amount) > Tolerance

\* C27: an updateOrder call that supplies a status for an existing order
\* succeeds and the order has that status, whatever its status was and
\* whatever updates came before.
C27_AnyStatusTransition ==
    (Returned(1, "updateOrder") /\ proc[1].id \in DOMAIN PreOrders(proc[1])
        /\ "status" \in proc[1].upd.supplied) =>
        /\ proc[1].result = "ok"
        /\ orders[proc[1].id].status = proc[1].upd.status

\* a delivered order was set back to pending
C27_Witness ==
    /\ Returned(1, "updateOrder")
    /\ proc[1].result = "ok"
    /\ PreOrders(proc[1])[proc[1].id].status = "delivered"
    /\ orders[proc[1].id].status = "pending"

\* rows of the call's session whose quantity was above their item's stock
\* when the call started
PreOverStock(r) ==
    {id \in PreSessionRows(r) :
        PreCart(r)[id].quantity > PreItems(r)[PreCart(r)[id].jewellery_item_id].stock_quantity}

\* C28: updateJewelleryItem changes no cart row and a successful createOrder
\* changes no cart row of another session, whatever stock they write; a
\* createOrder of an existing customer for a session whose items are active
\* and that has a row above stock fails with "Insufficient stock", so does an
\* updateCartItem of an existing row to a quantity above stock, and both
\* leave the store as it was.
C28_LazyStockValidation ==
    /\ Returned(1, "updateJewelleryItem") => cart = PreCart(proc[1])
    /\ Returned(1, "createOrder") =>
          \A id \in DOMAIN PreCart(proc[1]) :
              PreCart(proc[1])[id].session_id # proc[1].session =>
                  (id \in DOMAIN cart /\ cart[id] = PreCart(proc[1])[id])
    /\ ( /\ Returned(1, "createOrder")
         /\ proc[1].customer_id \in DOMAIN proc[1].pre[2]
         /\ PreOverStock(proc[1]) # {}
         /\ \A id \in PreSessionRows(proc[1]) :
               PreItems(proc[1])[PreCart(proc[1])[id].jewellery_item_id].is_active )
       => (proc[1].result = "Insufficient stock" /\ store = proc[1].pre)
    /\ ( /\ Returned(1, "updateCartItem")
         /\ proc[1].id \in DOMAIN PreCart(proc[1])
         /\ proc[1].quantity >
               PreItems(proc[1])[PreCart(proc[1])[proc[1].id].jewellery_item_id].stock_quantity )
       => (proc[1].result = "Insufficient stock" /\ store = proc[1].pre)

\* a session's order was refused for a row whose item another session's
\* order had taken the stock of, and the row is still in the cart
C28_Witness ==
    /\ Returned(1, "createOrder")
    /\ proc[1].result = "Insufficient stock"
    /\ \E id \in PreOverStock(proc[1]) :
          /\ id \in DOMAIN cart
          /\ cart[id].quantity > items[cart[id].jewellery_item_id].stock_quantity
          /\ \E oi \in DOMAIN orderItems :
                orderItems[oi].jewellery_item_id = cart[id].jewellery_item_id

\* C29: no item's stock_quantity is below 0, under every interleaving of
\* createJewelleryItem, updateJewelleryItem, cart calls and createOrder.
C29_StockNonNegative ==
    \A i \in DOMAIN items : items[i].stock_quantity >= 0

\* an order's stock write landed after an administrator had set the item's
\* stock to 0 while the order was in flight
C29_Witness ==
    \E p, q \in Procs :
        /\ Returned(p, "createOrder") /\ proc[p].result = "ok"
        /\ Returned(q, "updateJewelleryItem") /\ proc[q].result = "ok"
        /\ proc[q].upd.supplied = {"stock_quantity"}
        /\ proc[q].upd.stock_quantity = 0
        /\ items[proc[q].id].stock_quantity > 0
        /\ \E oi \in ItemsOfOrder(proc[p].ret) :
              orderItems[oi].jewellery_item_id = proc[q].id

\* C30: every cart row the cart delete of a successful createOrder removes
\* is a line item of the created order, with the row's item and the quantity
\* the row has when it is removed.
C30_DeletedRowsAreOrdered ==
    [][\A p \in Procs :
          (proc[p].pc = "co_clear" /\ proc'[p].pc = "done"
              /\ proc'[p].result = "ok") =>
              \A id \in DOMAIN cart \ DOMAIN cart' :
                  \E oi \in ItemsOfOrder(proc[p].orderId) :
                      /\ orderItems[oi].jewellery_item_id = cart[id].jewellery_item_id
                      /\ orderItems[oi].quantity = cart[id].quantity]_vars

====
